---- MODULE Spec2Model ----
(***************************************************************************)
(* Model of the data ingestion and reconciliation pipeline of upd-new:     *)
(*   - removeRedundantUrlHashes (migration script),                         *)
(*   - UrlsService.checkAndUpdateUrlData / ensurePageRefs /                 *)
(*     syncDataWithPages,                                                   *)
(*   - DbUpdateService.updateAll,                                           *)
(*   - the batching loops of repopulateGscPageSearchTerms and importGcTss,  *)
(*   - UrlsService.updateUrls,                                              *)
(*   - DbUpdateService.updateActivityMap under its Retry decorator,         *)
(*   - DbUpdateService.createPagesFromPageList.                             *)
(* Each part has its own specification over the shared variables.          *)
(***************************************************************************)
EXTENDS Integers, Sequences, FiniteSets, TLC

VARIABLES
  \* ---- removeRedundantUrlHashes ----
  pc,               \* position in removeRedundantUrlHashes
  urlHashes,        \* urls collection: url -> sequence of [hash, date]
  readability,      \* readability collection: set of documents
  blobs,            \* blob storage container 'urls': set of blob names (hashes)
  dupTodo,          \* duplicateReadability groups not yet iterated
  urlTodo,          \* urlDocs (more than 6 hashes) not yet iterated
  redundantHashes,  \* Set<string> in insertion order
  hashesToKeep,     \* Set<string>
  pendingOps,       \* the three pending lists
  cur,              \* index in redundantHashes of the hash being removed
  ops,              \* state of the three removals of the current hash
  dump,             \* content of the dump file, or NoDump
  analysisLog,      \* history: one entry per analysed url
  urlHashes0,       \* history: urls collection at the start
  readability0,     \* history: readability collection after de-duplication
  readabilityStart, \* history: readability collection at the start
  \* ---- UrlsService.checkAndUpdateUrlData ----
  phase,            \* position in checkAndUpdateUrlData
  urlsDb,           \* urls collection: url -> document
  collectionData,   \* urlsDataDict: the documents passed in, by url
  existingReadabilityHashes,
  readabilityDb,    \* readability collection
  blobMeta,         \* blob storage: hash -> NoBlob or the metadata 'urls' list
  urlsQueue,        \* updates queued and not yet written
  readabilityQueue, \* scores queued and not yet written
  cb,               \* the response callback of each url
  queuedOp,         \* history: the update queued for each url
  urlsWritten,      \* history: the updates passed to urls.bulkWrite, in order
  clock,            \* new Date()
  \* ---- UrlsService.ensurePageRefs / syncDataWithPages ----
  syncPc,           \* which of the two has run last
  urlDocs,          \* urls collection: url -> document
  pages,            \* pages collection: _id -> document
  foundTitles,      \* titles the title blobs hold for the urls
  urlDocsBefore,    \* history: urls collection before the last ensurePageRefs
  urlWrites,        \* history: url documents written by the last ensurePageRefs
  pageWrites,       \* history: pages written by the last syncDataWithPages
  \* ---- DbUpdateService.updateAll ----
  stage,            \* position in updateAll
  steps,            \* state of every update step
  \* ---- batching loops of repopulateGscPageSearchTerms and importGcTss ----
  loop,             \* the script that runs
  loopPc,           \* "loop" while its batching loop runs, then "done"
  items,            \* bulkWriteOps / data: the items not yet spliced off
  itemCount,        \* history: number of items before the loop
  submitted,        \* history: the batches passed to bulkWrite / insertMany
  \* ---- UrlsService.updateUrls ----
  uPc,              \* position in updateUrls
  options,          \* options.urls: check404s, checkAll, filter
  production,       \* the ENV flag
  urlColl,          \* urls collection: set of documents
  pageUrls,         \* urls of the pages collection
  todayT,           \* today(), in hours
  selected,         \* urlsFromCollection, the documents passed on
  outcomes,         \* history: the response each selected url got
  urlCollBefore,    \* history: urls collection when the urls were selected
  uError,           \* the error updateUrls threw, or NoError
  touched,          \* history: the database or blob storage has been used
  \* ---- DbUpdateService.updateActivityMap under Retry(4, 1000) ----
  aPc,              \* position in the wrapper and the service method
  attempts,         \* calls of DbUpdateService.updateActivityMap so far
  dateRanges,       \* number of date ranges to update
  updated,          \* date ranges whose activity map has been written
  attemptError,     \* the current attempt has hit an error inside the service
  \* ---- DbUpdateService.createPagesFromPageList ----
  pPc,              \* position in createPagesFromPageList
  pagesList,        \* pages_list collection, in find() order
  pageColl,         \* pages collection: set of documents
  pageMetrics,      \* pageMetrics collection: set of documents
  urlIsUnique,      \* the pages collection enforces a unique url
  pageCollBefore,   \* history: pages collection at the call
  pError            \* the error createPagesFromPageList threw, or NoError

rvars == <<pc, urlHashes, readability, blobs, dupTodo, urlTodo, redundantHashes,
           hashesToKeep, pendingOps, cur, ops, dump, analysisLog, urlHashes0,
           readability0>>

cvars == <<phase, urlsDb, collectionData, existingReadabilityHashes,
           readabilityDb, blobMeta, urlsQueue, readabilityQueue, cb, queuedOp,
           urlsWritten, clock>>

svars == <<syncPc, urlDocs, pages, foundTitles, urlDocsBefore, urlWrites,
           pageWrites>>

avars == <<stage, steps>>

bvars == <<loop, loopPc, items, itemCount, submitted>>

uvars == <<uPc, options, production, urlColl, pageUrls, todayT, selected,
           outcomes, urlCollBefore, uError, touched>>

\* the variables of the batching loops, of updateUrls and of the wrappers
tvars == <<aPc, attempts, dateRanges, updated, attemptError>>

pvars == <<pPc, pagesList, pageColl, pageMetrics, urlIsUnique, pageCollBefore,
           pError>>

evars == <<bvars, uvars, tvars, pvars>>

\* history of removeRedundantUrlHashes that no action changes
hvars == <<readabilityStart>>

vars == <<rvars, cvars, svars, avars, evars, hvars>>

\* the variables removeRedundantUrlHashes does not touch
notRemove == <<cvars, svars, avars, evars, hvars>>

\* ------------------------------------------------------------------------
\* Bounds of the model
\* ------------------------------------------------------------------------
\* largest number of readability scores of the first url
MaxScores == 4

\* ------------------------------------------------------------------------
\* Generic helpers
\* ------------------------------------------------------------------------
Range(s) == {s[i] : i \in 1..Len(s)}


\* Array.prototype.sort by date, ascending (dates of one url are distinct)
RECURSIVE SortByDate(_)
SortByDate(S) ==
  IF S = {} THEN <<>>
  ELSE LET first == CHOOSE d \in S : \A e \in S : d.date <= e.date
       IN <<first>> \o SortByDate(S \ {first})

\* ========================================================================
\* removeRedundantUrlHashes
\* ========================================================================
Urls == {"u1", "u2"}

\* $match: { hashesCount: { $gt: 6 } }
MinHashesCount == 6
\* urlHashes.length <= 2 / readabilityScores.length <= 2 : continue
MinRunLength == 2

\* (final_fk_score, total_words) values of the model
Metrics == { [fk |-> 1, words |-> 1], [fk |-> 1, words |-> 2], [fk |-> 2, words |-> 1] }

Stores == {"urls", "readability", "blobs"}

NoDump == [none |-> TRUE]

\* { _id: { url, hash }, docs } groups of the duplicateReadability aggregation
Groups(R) == {<<d.url, d.hash>> : d \in R}
GroupDocs(R, g) == {d \in R : d.url = g[1] /\ d.hash = g[2]}
duplicateReadability(R) == {g \in Groups(R) : Cardinality(GroupDocs(R, g)) > 1}

\* isSame: final score and word count are the same
isSame(a, b) == a.fk = b.fk /\ a.words = b.words

\* compareReadabilityDocs over a sorted group: every doc equals its successor
allAreSame(sorted) ==
  \A i \in 1..Len(sorted) :
    LET a == sorted[i]
        b == IF i + 1 <= Len(sorted) THEN sorted[i + 1] ELSE sorted[i]
    IN a.url = b.url /\ a.hash = b.hash /\ a.fk = b.fk /\ a.words = b.words

shouldSkip(hash) == hash \in Range(redundantHashes) \/ hash \in hashesToKeep

\* Set.add on the insertion-ordered Set
SetAdd(seq, h) == IF h \in Range(seq) THEN seq ELSE Append(seq, h)

\* the run loop with the previous score added when the run's first repeat is seen
RECURSIVE FindRunsEager(_, _, _, _, _, _)
FindRunsEager(scores, i, runStart, prev, keep, red) ==
  IF i > Len(scores) THEN [keep |-> keep, red |-> red]
  ELSE LET score == scores[i] IN
    IF runStart = <<>> \/ ~isSame(runStart[1], score)
    THEN FindRunsEager(scores, i + 1, <<score>>, <<>>, keep \cup {score.hash}, red)
    ELSE FindRunsEager(scores, i + 1, runStart, <<score>>, keep, SetAdd(red, score.hash))

\* the for (const score of readabilityScores) loop; runStart and prev are
\* <<>> for null and <<score>> otherwise
RECURSIVE FindRuns(_, _, _, _, _, _)
FindRuns(scores, i, runStart, prev, keep, red) ==
  IF i > Len(scores) THEN [keep |-> keep, red |-> red]
  ELSE LET score == scores[i] IN
    IF runStart = <<>> \/ ~isSame(runStart[1], score)
    THEN FindRuns(scores, i + 1, <<score>>, <<>>, keep \cup {score.hash}, red)
    ELSE IF prev = <<>>
    THEN FindRuns(scores, i + 1, runStart, <<score>>, keep, red)
    ELSE FindRuns(scores, i + 1, runStart, <<score>>, keep, SetAdd(red, prev[1].hash))

\* pendingOps.addPending leaving out the blob list
addPendingNoBlobs(hashes) ==
  [ urlHashesToRemove |-> hashes,
    readabilityHashesToDelete |-> hashes,
    blobHashesToDelete |-> <<>> ]

\* pendingOps.addPending(redundantHashes) on the empty lists
addPending(hashes) ==
  [ urlHashesToRemove |-> hashes,
    readabilityHashesToDelete |-> hashes,
    blobHashesToDelete |-> hashes ]

\* shift() if the hash is first, otherwise filter it out
RemoveHash(list, hash) ==
  IF list # <<>> /\ Head(list) = hash THEN Tail(list)
  ELSE SelectSeq(list, LAMBDA h : h # hash)

setUrlsProcessed(p, hash) ==
  [p EXCEPT !.urlHashesToRemove = RemoveHash(@, hash)]

setReadabilityProcessed(p, hash) ==
  [p EXCEPT !.readabilityHashesToDelete = RemoveHash(@, hash)]

setBlobProcessed(p, hash) ==
  [p EXCEPT !.blobHashesToDelete = RemoveHash(@, hash)]

setProcessed(s, p, hash) ==
  CASE s = "urls" -> setUrlsProcessed(p, hash)
    [] s = "readability" -> setReadabilityProcessed(p, hash)
    [] s = "blobs" -> setBlobProcessed(p, hash)

\* the $pull applied to the first matching url document only
PullHashFirstUrl(uh, hash) ==
  LET hit == {u \in DOMAIN uh : \E i \in 1..Len(uh[u]) : uh[u][i].hash = hash} IN
    IF hit = {} THEN uh
    ELSE LET f == CHOOSE u \in hit : \A v \in hit : Len(uh[v]) <= Len(uh[u]) IN
         [uh EXCEPT ![f] = SelectSeq(uh[f], LAMBDA e : e.hash # hash)]

\* updateMany({ 'hashes.hash': hash }, { $pull: { hashes: { hash } } })
PullHash(uh, hash) ==
  [u \in DOMAIN uh |-> SelectSeq(uh[u], LAMBDA e : e.hash # hash)]

\* readability.deleteMany({ hash })
DeleteReadability(R, hash) == {d \in R : d.hash # hash}

\* the hash the removal loop is at
CurHash == redundantHashes[cur]

\* checkAndUpdateUrlData is not running
IdleCheck ==
  /\ phase = "idle"
  /\ urlsDb = <<>>
  /\ collectionData = <<>>
  /\ existingReadabilityHashes = {}
  /\ readabilityDb = {}
  /\ blobMeta = <<>>
  /\ urlsQueue = <<>>
  /\ readabilityQueue = <<>>
  /\ cb = <<>>
  /\ queuedOp = <<>>
  /\ urlsWritten = <<>>
  /\ clock = 0

\* ensurePageRefs and syncDataWithPages are not running
IdleSync ==
  /\ syncPc = "idle"
  /\ urlDocs = <<>>
  /\ pages = <<>>
  /\ foundTitles = <<>>
  /\ urlDocsBefore = <<>>
  /\ urlWrites = {}
  /\ pageWrites = {}

\* updateAll is not running
IdleAll ==
  /\ stage = 0
  /\ steps = <<>>

\* no batching loop is running
IdleBatch ==
  /\ loop = "none"
  /\ loopPc = "idle"
  /\ items = <<>>
  /\ itemCount = 0
  /\ submitted = <<>>

NoError == "no error"
NoFilter == [none |-> TRUE]

\* updateUrls is not running
IdleUpdateUrls ==
  /\ uPc = "idle"
  /\ options = [check404s |-> FALSE, checkAll |-> FALSE, filter |-> NoFilter]
  /\ production = FALSE
  /\ urlColl = {}
  /\ pageUrls = {}
  /\ todayT = 0
  /\ selected = {}
  /\ outcomes = <<>>
  /\ urlCollBefore = {}
  /\ uError = NoError
  /\ touched = FALSE

\* updateActivityMap is not running
IdleActivityMap ==
  /\ aPc = "idle"
  /\ attempts = 0
  /\ dateRanges = 0
  /\ updated = 0
  /\ attemptError = FALSE

\* createPagesFromPageList is not running
IdleCreatePages ==
  /\ pPc = "idle"
  /\ pagesList = <<>>
  /\ pageColl = {}
  /\ pageMetrics = {}
  /\ urlIsUnique = FALSE
  /\ pageCollBefore = {}
  /\ pError = NoError

IdleExt ==
  /\ IdleBatch
  /\ IdleUpdateUrls
  /\ IdleActivityMap
  /\ IdleCreatePages

\* ------------------------------------------------------------------------
\* Initial collections
\* ------------------------------------------------------------------------
Entry(h, d) == [hash |-> h, date |-> d]
Doc(u, h, d, m) == [url |-> u, hash |-> h, date |-> d, fk |-> m.fk, words |-> m.words]

\* the first url has seven snapshots, the newest k of them with a score
U1Hashes == [i \in 1..7 |-> Entry(i, i)]
U1Docs(k, m) == {Doc("u1", h, h, m[h]) : h \in (8 - k)..7}

\* the second url shares snapshot 6 with the first; it has two or seven snapshots
U2Shapes == { <<6, 8>>, <<6, 8, 9, 10, 11, 12, 13>> }
U2Hashes(shape) == [i \in 1..Len(shape) |-> Entry(shape[i], i)]
U2Docs(shape, m6) ==
  {Doc("u2", shape[i], i,
       CASE shape[i] = 6 -> m6
         [] shape[i] = 11 -> [fk |-> 2, words |-> 1]
         [] OTHER -> [fk |-> 1, words |-> 1]) :
     i \in 1..(IF Len(shape) > 5 THEN 5 ELSE Len(shape))}

\* scores assessed a second time for a (url, hash) that already has one
DupDocs == { Doc("u1", 7, 9, [fk |-> 1, words |-> 1]),
             Doc("u2", 8, 9, [fk |-> 1, words |-> 2]) }

AllIdle == [s \in Stores |-> "idle"]

InitRemove ==
  \E k \in 0..MaxScores, shape \in U2Shapes, dups \in SUBSET DupDocs :
    \E m \in [(8 - k)..7 -> Metrics] :
      LET m6 == IF 6 \in DOMAIN m THEN m[6] ELSE [fk |-> 1, words |-> 1]
          R == U1Docs(k, m) \cup U2Docs(shape, m6) \cup dups
          UH == [u \in Urls |-> IF u = "u1" THEN U1Hashes ELSE U2Hashes(shape)]
      IN /\ urlHashes = UH
         /\ urlHashes0 = UH
         /\ readability = R
         /\ readability0 = R
         /\ readabilityStart = R
         /\ blobs = UNION {{e.hash : e \in Range(UH[u])} : u \in Urls}
                      \cup {d.hash : d \in R}
         /\ dupTodo = duplicateReadability(R)
         /\ pc = "dedup"
         /\ urlTodo = {}
         /\ redundantHashes = <<>>
         /\ hashesToKeep = {}
         /\ pendingOps = addPending(<<>>)
         /\ cur = 0
         /\ ops = AllIdle
         /\ dump = NoDump
         /\ analysisLog = <<>>
         /\ IdleCheck
         /\ IdleSync
         /\ IdleAll
         /\ IdleExt

\* ------------------------------------------------------------------------
\* Actions
\* ------------------------------------------------------------------------
\* one iteration of for (const { docs } of duplicateReadability)
DedupGroup ==
  /\ pc = "dedup"
  /\ \E g \in dupTodo :
       LET sorted == SortByDate(GroupDocs(readability, g)) IN
         /\ dupTodo' = dupTodo \ {g}
         /\ IF ~allAreSame(sorted)
            THEN /\ pc' = "thrown"
                 /\ UNCHANGED <<readability, readability0>>
            ELSE /\ pc' = pc
                 /\ readability' = readability \ Range(Tail(sorted))
                 /\ readability0' = readability'
  /\ UNCHANGED <<urlHashes, blobs, urlTodo, redundantHashes, hashesToKeep,
                 pendingOps, cur, ops, dump, analysisLog, urlHashes0, notRemove>>

\* readability.find(), urls.aggregate([... $match hashesCount > 6, $sort])
DedupDone ==
  /\ pc = "dedup"
  /\ dupTodo = {}
  /\ pc' = "find"
  /\ urlTodo' = {u \in Urls : Len(urlHashes[u]) > MinHashesCount}
  /\ UNCHANGED <<urlHashes, readability, blobs, dupTodo, redundantHashes,
                 hashesToKeep, pendingOps, cur, ops, dump, analysisLog,
                 urlHashes0, readability0, notRemove>>

\* one iteration of for (const urlDoc of urlDocs), most hashes first
AnalyseUrl ==
  /\ pc = "find"
  /\ \E u \in urlTodo :
       /\ \A v \in urlTodo : Len(urlHashes[v]) <= Len(urlHashes[u])
       /\ urlTodo' = urlTodo \ {u}
       /\ LET urlHashesLeft == SelectSeq(urlHashes[u], LAMBDA e : ~shouldSkip(e.hash))
              readabilityScores ==
                SortByDate({d \in readability : d.url = u /\ ~shouldSkip(d.hash)})
          IN IF Len(urlHashesLeft) <= MinRunLength \/ Len(readabilityScores) <= MinRunLength
             THEN UNCHANGED <<redundantHashes, hashesToKeep, analysisLog>>
             ELSE LET r == FindRuns(readabilityScores, 1, <<>>, <<>>,
                                    hashesToKeep, redundantHashes)
                  IN /\ hashesToKeep' = r.keep
                     /\ redundantHashes' = r.red
                     /\ analysisLog' = Append(analysisLog,
                          [ url |-> u, scores |-> readabilityScores,
                            keepBefore |-> hashesToKeep,
                            redBefore |-> Range(redundantHashes),
                            keepAfter |-> r.keep, redAfter |-> Range(r.red) ])
  /\ UNCHANGED <<pc, urlHashes, readability, blobs, dupTodo, pendingOps, cur, ops,
                 dump, urlHashes0, readability0, notRemove>>

\* pendingOps.addPending(redundantHashes)
FindDone ==
  /\ pc = "find"
  /\ urlTodo = {}
  /\ pendingOps' = addPending(redundantHashes)
  /\ pc' = "remove"
  /\ UNCHANGED <<urlHashes, readability, blobs, dupTodo, urlTodo, redundantHashes,
                 hashesToKeep, cur, ops, dump, analysisLog, urlHashes0, readability0, notRemove>>

LoopReady == pc = "remove" /\ (cur = 0 \/ \A s \in Stores : ops[s] = "processed")

\* for (const hash of redundantHashes): the three removals are started
NextHash ==
  /\ LoopReady
  /\ cur < Len(redundantHashes)
  /\ cur' = cur + 1
  /\ ops' = [s \in Stores |-> "inflight"]
  /\ UNCHANGED <<pc, urlHashes, readability, blobs, dupTodo, urlTodo,
                 redundantHashes, hashesToKeep, pendingOps, dump, analysisLog,
                 urlHashes0, readability0, notRemove>>

\* the loop ends without an error
LoopEnd ==
  /\ LoopReady
  /\ cur = Len(redundantHashes)
  /\ pc' = "done"
  /\ UNCHANGED <<urlHashes, readability, blobs, dupTodo, urlTodo, redundantHashes,
                 hashesToKeep, pendingOps, cur, ops, dump, analysisLog, urlHashes0,
                 readability0, notRemove>>

\* a store carries out the removal of the current hash
Apply ==
  /\ pc \in {"remove", "dumped", "done"}
  /\ \E s \in Stores :
       /\ ops[s] = "inflight"
       /\ ops' = [ops EXCEPT ![s] = "applied"]
       /\ urlHashes' = IF s = "urls" THEN PullHash(urlHashes, CurHash) ELSE urlHashes
       /\ readability' = IF s = "readability"
                         THEN DeleteReadability(readability, CurHash) ELSE readability
       /\ blobs' = IF s = "blobs" THEN blobs \ {CurHash} ELSE blobs
  /\ UNCHANGED <<pc, dupTodo, urlTodo, redundantHashes, hashesToKeep, pendingOps,
                 cur, dump, analysisLog, urlHashes0, readability0, notRemove>>

\* .then(() => pendingOps.set...Processed(hash))
Then ==
  /\ pc \in {"remove", "dumped", "done"}
  /\ \E s \in Stores :
       /\ ops[s] = "applied"
       /\ ops' = [ops EXCEPT ![s] = "processed"]
       /\ pendingOps' = setProcessed(s, pendingOps, CurHash)
  /\ UNCHANGED <<pc, urlHashes, readability, blobs, dupTodo, urlTodo,
                 redundantHashes, hashesToKeep, cur, dump, analysisLog, urlHashes0,
                 readability0, notRemove>>

\* a removal is rejected; the store is left as it was
Fail ==
  /\ pc \in {"remove", "dumped", "done"}
  /\ \E s \in Stores :
       /\ ops[s] = "inflight"
       /\ ops' = [ops EXCEPT ![s] = "failed"]
  /\ UNCHANGED <<pc, urlHashes, readability, blobs, dupTodo, urlTodo,
                 redundantHashes, hashesToKeep, pendingOps, cur, dump, analysisLog,
                 urlHashes0, readability0, notRemove>>

\* catch (e) { ... await pendingOps.dump() }
Catch ==
  /\ pc = "remove"
  /\ \E s \in Stores : ops[s] = "failed"
  /\ dump' = pendingOps
  /\ pc' = "dumped"
  /\ UNCHANGED <<urlHashes, readability, blobs, dupTodo, urlTodo, redundantHashes,
                 hashesToKeep, pendingOps, cur, ops, analysisLog, urlHashes0,
                 readability0, notRemove>>

\* the function returns after the dump
Return ==
  /\ pc = "dumped"
  /\ pc' = "done"
  /\ UNCHANGED <<urlHashes, readability, blobs, dupTodo, urlTodo, redundantHashes,
                 hashesToKeep, pendingOps, cur, ops, dump, analysisLog, urlHashes0,
                 readability0, notRemove>>

NextRemove ==
  \/ DedupGroup \/ DedupDone \/ AnalyseUrl \/ FindDone
  \/ NextHash \/ LoopEnd \/ Apply \/ Then \/ Fail \/ Catch \/ Return

SpecRemove == InitRemove /\ [][NextRemove]_vars

\* ========================================================================
\* Properties of removeRedundantUrlHashes
\* ========================================================================
InUrls(h) == \E u \in Urls : \E i \in 1..Len(urlHashes[u]) : urlHashes[u][i].hash = h
InReadability(h) == \E d \in readability : d.hash = h
InBlobs(h) == h \in blobs

RemovedEverywhere(h) == ~InUrls(h) /\ ~InReadability(h) /\ ~InBlobs(h)
PresentEverywhere(h) == InUrls(h) /\ InReadability(h) /\ InBlobs(h)

\* C1 as stated: when removeRedundantUrlHashes has returned, also after a
\* failed removal, every redundant hash is either removed from all three
\* stores or still present in all three.
C1_AllOrNothing ==
  pc = "done" =>
    \A h \in Range(redundantHashes) : RemovedEverywhere(h) \/ PresentEverywhere(h)

\* C1 amended: after a return without a failed removal every redundant hash
\* is removed from all three stores; after a failed removal the hashes before
\* the failing one are removed from all three stores and the hashes after it
\* have been removed from none of them, so they are still present in all
\* three (only the failing hash may differ between the stores).
C1_ConsistentExceptFailing ==
  pc = "done" =>
    \A i \in 1..Len(redundantHashes) :
      /\ (dump = NoDump \/ i < cur) => RemovedEverywhere(redundantHashes[i])
      /\ (dump # NoDump /\ i > cur) => PresentEverywhere(redundantHashes[i])

\* C1 witness: returned after a failure on the second or a later hash, with
\* the failing hash removed from one store and present in another, and a
\* later hash untouched.
C1_Witness ==
  /\ pc = "done"
  /\ dump # NoDump
  /\ 1 < cur
  /\ cur < Len(redundantHashes)
  /\ ~InUrls(CurHash)
  /\ InBlobs(CurHash)

\* C2: the dump lists, for each store, every redundant hash whose removal
\* from that store has not completed: every hash after the failing one, the
\* failing hash for the stores whose removal failed or was still in flight,
\* and every redundant hash the store still holds.
C2_DumpComplete ==
  dump # NoDump =>
    \A i \in 1..Len(redundantHashes) :
      LET h == redundantHashes[i] IN
        /\ i > cur =>
             /\ h \in Range(dump.urlHashesToRemove)
             /\ h \in Range(dump.readabilityHashesToDelete)
             /\ h \in Range(dump.blobHashesToDelete)
        /\ (i = cur /\ ops["urls"] \in {"inflight", "failed"}) =>
             h \in Range(dump.urlHashesToRemove)
        /\ (i = cur /\ ops["readability"] \in {"inflight", "failed"}) =>
             h \in Range(dump.readabilityHashesToDelete)
        /\ (i = cur /\ ops["blobs"] \in {"inflight", "failed"}) =>
             h \in Range(dump.blobHashesToDelete)
        /\ InUrls(h) => h \in Range(dump.urlHashesToRemove)
        /\ InReadability(h) => h \in Range(dump.readabilityHashesToDelete)
        /\ InBlobs(h) => h \in Range(dump.blobHashesToDelete)

\* C2 witness: a dump taken while a removal of the failing hash was still in
\* flight on another store and a later hash had not been started.
C2_Witness ==
  /\ pc = "dumped"
  /\ cur < Len(redundantHashes)
  /\ ops["blobs"] = "failed"
  /\ ops["urls"] = "inflight"
  /\ ops["readability"] = "processed"

\* C3: every url document that lost a hash h keeps an earlier-dated snapshot
\* whose final_fk_score and total_words equal those of h.
C3_RemovedHasEarlierSame ==
  \A u \in Urls :
    \A i \in 1..Len(urlHashes0[u]) :
      LET h == urlHashes0[u][i].hash
          kept == {urlHashes[u][j].hash : j \in 1..Len(urlHashes[u])}
      IN h \notin kept =>
           \E dh \in readability0 : \E dk \in readability0 :
             /\ dh.url = u /\ dh.hash = h
             /\ dk.url = u /\ dk.hash \in kept
             /\ dk.date < dh.date
             /\ dk.fk = dh.fk /\ dk.words = dh.words

\* positions of a sorted score list where a run starts or ends
RunStartsAt(scores, i) ==
  i = 1 \/ scores[i].fk # scores[i - 1].fk \/ scores[i].words # scores[i - 1].words
RunEndsAt(scores, i) == i = Len(scores) \/ RunStartsAt(scores, i + 1)

\* C4: for each analysed url the not-yet-classified scores are sorted by date
\* and split into maximal runs of equal (final_fk_score, total_words); the
\* first of every run is added to hashesToKeep, the scores strictly between
\* the first and the last of a run are exactly the ones added to
\* redundantHashes, and the last of a run of two or more is added to neither.
C4_RunsClassified ==
  \A n \in 1..Len(analysisLog) :
    LET e == analysisLog[n]
        sc == e.scores
        old == e.keepBefore \cup e.redBefore
        firsts == {sc[i].hash : i \in {j \in 1..Len(sc) : RunStartsAt(sc, j)}}
        middles == {sc[i].hash : i \in {j \in 1..Len(sc) :
                       ~RunStartsAt(sc, j) /\ ~RunEndsAt(sc, j)}}
        lasts == {sc[i].hash : i \in {j \in 1..Len(sc) :
                       ~RunStartsAt(sc, j) /\ RunEndsAt(sc, j)}}
    IN /\ Len(urlHashes0[e.url]) > MinHashesCount
       /\ Len(sc) > MinRunLength
       /\ Range(sc) = {d \in readability0 : d.url = e.url /\ d.hash \notin old}
       /\ \A i \in 1..(Len(sc) - 1) : sc[i].date <= sc[i + 1].date
       /\ e.keepAfter = e.keepBefore \cup firsts
       /\ e.redAfter = e.redBefore \cup middles
       /\ lasts \cap (e.keepAfter \cup e.redAfter) = {}

\* C4 witness: an analysed url some of whose scores were already classified,
\* with a run of three or more (a redundant hash) and a run that ends right
\* after its first score.
C4_Witness ==
  \E n \in 1..Len(analysisLog) :
    LET e == analysisLog[n]
        sc == e.scores
    IN /\ \E d \in readability0 : d.url = e.url /\ d.hash \in e.keepBefore \cup e.redBefore
       /\ e.redAfter # e.redBefore
       /\ \E i \in 1..Len(sc) : RunStartsAt(sc, i) /\ RunEndsAt(sc, i)

\* ========================================================================
\* UrlsService.checkAndUpdateUrlData
\* ========================================================================
CUrls == {"a", "b"}

\* content hashes a response can have
MaxHash == 3

NoBlob == <<"no blob">>
NoOp == [none |-> TRUE]

\* removeRedundantUrlHashes is not running
IdleRemove ==
  /\ pc = "idle" /\ urlHashes = <<>> /\ readability = {} /\ blobs = {}
  /\ readabilityStart = {}
  /\ dupTodo = {} /\ urlTodo = {} /\ redundantHashes = <<>>
  /\ hashesToKeep = {} /\ pendingOps = addPending(<<>>) /\ cur = 0
  /\ ops = AllIdle /\ dump = NoDump /\ analysisLog = <<>>
  /\ urlHashes0 = <<>> /\ readability0 = {}

\* the variables checkAndUpdateUrlData does not touch
notCheck == <<rvars, svars, avars, evars, hvars>>

\* a url document (title, metadata, links, langHrefs and redirect left out)
UrlDoc(hashes, is404) ==
  [ hashes |-> hashes,
    latest_snapshot |-> IF hashes = <<>> THEN 0 ELSE hashes[Len(hashes)].hash,
    last_checked |-> Len(hashes),
    last_modified |-> Len(hashes),
    is_404 |-> is404 ]

HashHistories == { <<>>, <<Entry(1, 1)>>, <<Entry(1, 1), Entry(2, 2)>> }

HashesOf(doc) == {doc.hashes[i].hash : i \in 1..Len(doc.hashes)}

\* the update of a 404 or an empty body
Update404(u, date) ==
  [ id |-> u,
    set |-> [last_checked |-> date, last_modified |-> date, is_404 |-> TRUE],
    addHash |-> <<>> ]

\* the update of a page whose hash is already recorded
UpdateUnchanged(u, date) ==
  [ id |-> u, set |-> [last_checked |-> date], addHash |-> <<>> ]

\* the update of a page with a new hash
UpdateChanged(u, hash, date) ==
  [ id |-> u,
    set |-> [ last_checked |-> date, last_modified |-> date, is_404 |-> FALSE,
              latest_snapshot |-> hash ],
    addHash |-> <<Entry(hash, date)>> ]

\* the hash is compared with the latest snapshot only
alreadySavedLatestOnly(data, hash) == data.latest_snapshot = hash

\* collectionData.hashes.map(({ hash }) => hash).includes(hash)
alreadySaved(data, hash) == hash \in HashesOf(data)

\* updateOne: $set of the fields given, $addToSet of the hash entry
ApplyUpdate(doc, op) ==
  LET withSet == [f \in DOMAIN doc |-> IF f \in DOMAIN op.set THEN op.set[f] ELSE doc[f]]
  IN IF op.addHash = <<>> \/ op.addHash[1] \in Range(doc.hashes)
     THEN withSet
     ELSE [withSet EXCEPT !.hashes = Append(doc.hashes, op.addHash[1])]

\* urls.bulkWrite(ops), in order
RECURSIVE BulkWrite(_, _)
BulkWrite(db, queue) ==
  IF queue = <<>> THEN db
  ELSE BulkWrite([db EXCEPT ![Head(queue).id] = ApplyUpdate(@, Head(queue))],
                 Tail(queue))

\* the urls passed in and their blobs; the newest hash may already have been
\* stored for a url "c" that is not checked in this run
InitCheck ==
  \E ha \in HashHistories, hb \in HashHistories, fa \in BOOLEAN, fb \in BOOLEAN,
     known \in BOOLEAN, other \in BOOLEAN :
    LET db == [u \in CUrls |-> IF u = "a" THEN UrlDoc(ha, fa) ELSE UrlDoc(hb, fb)]
        holders(h) == {u \in CUrls : h \in HashesOf(db[u])}
    IN /\ urlsDb = db
       /\ collectionData = db
       /\ blobMeta = [h \in 1..MaxHash |->
                        IF holders(h) = {}
                        THEN (IF other /\ h = MaxHash THEN <<"c">> ELSE NoBlob)
                        ELSE IF holders(h) = {"b"} THEN <<"b">>
                        ELSE IF holders(h) = {"a"} THEN <<"a">>
                        ELSE <<"a", "b">>]
       /\ existingReadabilityHashes =
            IF known THEN UNION {HashesOf(db[u]) : u \in CUrls} ELSE {}
       /\ readabilityDb = {}
       /\ urlsQueue = <<>>
       /\ readabilityQueue = <<>>
       /\ cb = [u \in CUrls |-> [pc |-> "idle", kind |-> "none", hash |-> 0,
                                 date |-> 0, urls |-> <<>>]]
       /\ queuedOp = [u \in CUrls |-> NoOp]
       /\ urlsWritten = <<>>
       /\ clock = 3
       /\ phase = "crawl"
       /\ IdleSync
       /\ IdleAll
       /\ IdleRemove
       /\ IdleExt

\* addToQueues(urlData, readabilityScore?)
addToQueues(u, op, scores) ==
  /\ urlsQueue' = Append(urlsQueue, op)
  /\ readabilityQueue' = readabilityQueue \o scores
  /\ queuedOp' = [queuedOp EXCEPT ![u] = op]

\* the callbacks run while the crawl is on; those of a batch that are under
\* way when http.getAll rejects go on after it
CallbackPhases == {"crawl", "flushed", "syncing"}

\* the callback of http.getAll is entered with the response of url u
Respond ==
  /\ phase \in CallbackPhases
  /\ \E u \in CUrls, kind \in {"is404", "denied", "empty", "content"}, h \in 1..MaxHash :
       /\ cb[u].pc = "idle"
       /\ kind # "content" => h = 1
       /\ clock' = clock + 1
       /\ cb' = [cb EXCEPT ![u] =
                   [ pc |-> IF kind = "content" THEN "exists" ELSE "done",
                     kind |-> kind,
                     hash |-> IF kind = "content" THEN h ELSE 0,
                     date |-> clock, urls |-> <<>> ]]
       /\ IF kind \in {"is404", "empty"}
          THEN addToQueues(u, Update404(u, clock), <<>>)
          ELSE UNCHANGED <<urlsQueue, readabilityQueue, queuedOp>>
  /\ UNCHANGED <<phase, urlsDb, collectionData, existingReadabilityHashes,
                 readabilityDb, blobMeta, urlsWritten, notCheck>>

\* await urlBlob.exists()
BlobExists ==
  /\ phase \in CallbackPhases
  /\ \E u \in CUrls :
       /\ cb[u].pc = "exists"
       /\ cb' = [cb EXCEPT ![u].pc =
                   IF blobMeta[cb[u].hash] # NoBlob THEN "getProperties" ELSE "upload"]
  /\ UNCHANGED <<phase, urlsDb, collectionData, existingReadabilityHashes,
                 readabilityDb, blobMeta, urlsQueue, readabilityQueue, queuedOp,
                 clock, urlsWritten, notCheck>>

\* (await urlBlob.getProperties()).metadata; urls.includes / urls.push
GetProperties ==
  /\ phase \in CallbackPhases
  /\ \E u \in CUrls :
       /\ cb[u].pc = "getProperties"
       /\ LET urls == blobMeta[cb[u].hash] IN
            cb' = IF u \in Range(urls)
                  THEN [cb EXCEPT ![u].pc = "assess"]
                  ELSE [cb EXCEPT ![u].pc = "setMetadata", ![u].urls = Append(urls, u)]
  /\ UNCHANGED <<phase, urlsDb, collectionData, existingReadabilityHashes,
                 readabilityDb, blobMeta, urlsQueue, readabilityQueue, queuedOp,
                 clock, urlsWritten, notCheck>>

\* await urlBlob.setMetadata({ ...blobMetadata, urls: JSON.stringify(urls) })
SetMetadata ==
  /\ phase \in CallbackPhases
  /\ \E u \in CUrls :
       /\ cb[u].pc = "setMetadata"
       /\ blobMeta' = [blobMeta EXCEPT ![cb[u].hash] = cb[u].urls]
       /\ cb' = [cb EXCEPT ![u].pc = "assess"]
  /\ UNCHANGED <<phase, urlsDb, collectionData, existingReadabilityHashes,
                 readabilityDb, urlsQueue, readabilityQueue, queuedOp, clock,
                 urlsWritten, notCheck>>

\* minify and urlBlob.uploadFromString of a blob seen as missing; an upload
\* of a blob that exists by now is rejected ('already exists')
Upload ==
  /\ phase \in CallbackPhases
  /\ \E u \in CUrls, minified \in BOOLEAN :
       /\ cb[u].pc = "upload"
       /\ IF blobMeta[cb[u].hash] = NoBlob
          THEN /\ blobMeta' = [blobMeta EXCEPT ![cb[u].hash] = <<u>>]
               /\ cb' = [cb EXCEPT ![u].pc = "assess"]
          ELSE /\ blobMeta' = blobMeta
               /\ cb' = [cb EXCEPT ![u].pc =
                           IF minified THEN "getProperties" ELSE "threw"]
  /\ UNCHANGED <<phase, urlsDb, collectionData, existingReadabilityHashes,
                 readabilityDb, urlsQueue, readabilityQueue, queuedOp, clock,
                 urlsWritten, notCheck>>

\* the comparison with the recorded hashes, assessReadability and addToQueues
Assess ==
  /\ phase \in CallbackPhases
  /\ \E u \in CUrls, assessed \in BOOLEAN :
       LET hash == cb[u].hash
           date == cb[u].date
           score == [url |-> u, hash |-> hash, date |-> date]
       IN /\ cb[u].pc = "assess"
          /\ cb' = [cb EXCEPT ![u].pc = "done"]
          /\ IF alreadySaved(collectionData[u], hash)
             THEN IF hash \notin existingReadabilityHashes
                  THEN IF assessed
                       THEN addToQueues(u, UpdateUnchanged(u, date), <<score>>)
                       ELSE UNCHANGED <<urlsQueue, readabilityQueue, queuedOp>>
                  ELSE /\ assessed
                       /\ addToQueues(u, UpdateUnchanged(u, date), <<>>)
             ELSE IF assessed
                  THEN addToQueues(u, UpdateChanged(u, hash, date), <<score>>)
                  ELSE UNCHANGED <<urlsQueue, readabilityQueue, queuedOp>>
  /\ UNCHANGED <<phase, urlsDb, collectionData, existingReadabilityHashes,
                 readabilityDb, blobMeta, clock, urlsWritten, notCheck>>

\* http.getAll has resolved: every callback has returned
getAllResolved == \A u \in CUrls : cb[u].pc = "done"

\* http.getAll has rejected: a callback has thrown; the requests and
\* callbacks of the other urls of the batch are not cancelled
getAllRejected == \E u \in CUrls : cb[u].pc = "threw"

\* finally { await flushQueues() } once http.getAll has settled
FlushQueues ==
  /\ phase = "crawl"
  /\ getAllResolved \/ getAllRejected
  /\ urlsDb' = BulkWrite(urlsDb, urlsQueue)
  /\ urlsWritten' = urlsWritten \o urlsQueue
  /\ readabilityDb' = readabilityDb \cup Range(readabilityQueue)
  /\ urlsQueue' = <<>>
  /\ readabilityQueue' = <<>>
  /\ phase' = "flushed"
  /\ UNCHANGED <<collectionData, existingReadabilityHashes, blobMeta, cb, queuedOp,
                 clock, notCheck>>

\* try { await this.syncDataWithPages() } is entered
StartSync ==
  /\ phase = "flushed"
  /\ phase' = "syncing"
  /\ UNCHANGED <<urlsDb, collectionData, existingReadabilityHashes, readabilityDb,
                 blobMeta, urlsQueue, readabilityQueue, cb, queuedOp, urlsWritten,
                 clock, notCheck>>

NextCheck ==
  \/ Respond \/ BlobExists \/ GetProperties \/ SetMetadata \/ Upload \/ Assess
  \/ FlushQueues \/ StartSync

SpecCheck == InitCheck /\ [][NextCheck]_vars

\* ------------------------------------------------------------------------
\* Properties of checkAndUpdateUrlData
\* ------------------------------------------------------------------------
Occurrences(seq, x) == Cardinality({i \in 1..Len(seq) : seq[i] = x})

\* the update queued for url u has been written to the urls collection
Written(u) == queuedOp[u] \in Range(urlsWritten)

\* C5: once the responses are processed, for every response with content the
\* blob of its hash exists and its metadata 'urls' lists the url exactly once.
C5_BlobListsEveryUrl ==
  (phase = "flushed" /\ \A u \in CUrls : cb[u].pc = "done") =>
    \A u \in CUrls :
      cb[u].kind = "content" =>
        /\ blobMeta[cb[u].hash] # NoBlob
        /\ Occurrences(blobMeta[cb[u].hash], u) = 1

\* C6: a page is changed exactly when its hash is not among the hashes
\* recorded for its url. The update queued for a changed page adds
\* {hash, date} and sets latest_snapshot to the hash and last_modified to the
\* check time; the update queued for an unchanged page adds no hash and sets
\* neither last_modified nor latest_snapshot. Once written, the document
\* shows the same.
C6_ChangedIffNewHash ==
  \A u \in CUrls :
    (cb[u].kind = "content" /\ queuedOp[u] # NoOp) =>
      LET op == queuedOp[u]
          hash == cb[u].hash
          date == cb[u].date
          before == collectionData[u]
          recorded == {before.hashes[i].hash : i \in 1..Len(before.hashes)}
      IN IF hash \notin recorded
         THEN /\ op.addHash = <<[hash |-> hash, date |-> date]>>
              /\ "latest_snapshot" \in DOMAIN op.set /\ op.set.latest_snapshot = hash
              /\ "last_modified" \in DOMAIN op.set /\ op.set.last_modified = date
              /\ Written(u) =>
                   /\ [hash |-> hash, date |-> date] \in Range(urlsDb[u].hashes)
                   /\ Len(urlsDb[u].hashes) = Len(before.hashes) + 1
                   /\ urlsDb[u].latest_snapshot = hash
                   /\ urlsDb[u].last_modified = date
         ELSE /\ op.addHash = <<>>
              /\ "latest_snapshot" \notin DOMAIN op.set
              /\ "last_modified" \notin DOMAIN op.set
              /\ Written(u) =>
                   /\ urlsDb[u].hashes = before.hashes
                   /\ urlsDb[u].latest_snapshot = before.latest_snapshot
                   /\ urlsDb[u].last_modified = before.last_modified

\* C6 witness: after the flush, one url was updated as changed although it
\* had hashes recorded, the other as unchanged with a hash that is not its
\* latest snapshot.
C6_Witness ==
  /\ phase = "flushed"
  /\ queuedOp["a"] # NoOp /\ queuedOp["b"] # NoOp
  /\ cb["a"].kind = "content" /\ cb["b"].kind = "content"
  /\ collectionData["a"].hashes # <<>>
  /\ cb["a"].hash \notin HashesOf(collectionData["a"])
  /\ cb["b"].hash \in HashesOf(collectionData["b"])
  /\ cb["b"].hash # collectionData["b"].latest_snapshot

\* ========================================================================
\* UrlsService.ensurePageRefs and UrlsService.syncDataWithPages
\* ========================================================================
SUrls == {"en/a", "fr/b"}
PageIds == {"p1", "p2"}

\* a field a document does not have
Absent == "absent"

\* the variables ensurePageRefs and syncDataWithPages do not touch
notSync == <<rvars, cvars, avars, evars, hvars>>

\* /^www\.canada\.ca\/(en|fr)/.exec(url.url)?.[1]
Lang(url) == IF url = "en/a" THEN "en" ELSE "fr"

\* altLang and the altLangHref taken from url.langHrefs
AltLangHref(url, doc) ==
  LET altLang == IF Lang(url) = "en" THEN "fr" ELSE "en" IN doc.langHrefs[altLang]

\* the projected url document with langHrefs replaced by altLangHref
UrlView(url, doc) ==
  [ title |-> doc.title, altLangHref |-> AltLangHref(url, doc),
    redirect |-> doc.redirect, is_404 |-> doc.is_404, metadata |-> doc.metadata ]

UrlsProps == <<"title", "altLangHref", "redirect", "is_404", "metadata">>

\* pick([...]) : the listed properties the object has, in the listed order
pickUrlsProps(obj) ==
  LET has == SelectSeq(UrlsProps, LAMBDA k : obj[k] # Absent)
  IN [i \in 1..Len(has) |-> <<has[i], obj[has[i]]>>]

\* pipe(pickUrlsProps, JSON.stringify): the picked keys and values in order
toComparisonString(obj) == pickUrlsProps(obj)

\* { $set: picked } on a page
RECURSIVE SetProps(_, _)
SetProps(page, picked) ==
  IF picked = <<>> THEN page
  ELSE SetProps([page EXCEPT ![Head(picked)[1]] = Head(picked)[2]], Tail(picked))

\* $lookup of the referenced page: the pages with that _id
Lookup(P, ref) == IF ref \in DOMAIN P THEN <<P[ref]>> ELSE <<>>

\* only references to pages that do not exist are repaired
needsPageRefDanglingOnly(P, url, doc) == Lookup(P, doc.page) = <<>>

\* !urlDoc.page.length || urlDoc.page[0]?.url !== urlDoc.url
needsPageRef(P, url, doc) ==
  Lookup(P, doc.page) = <<>> \/ Lookup(P, doc.page)[1].url # url

\* url documents with a page field whose reference is missing or wrong
urlsToUpdate(U, P) ==
  {u \in DOMAIN U : U[u].page # Absent /\ needsPageRef(P, u, U[u])}

\* pages in the order find() returns them
PageOrder == <<"p1", "p2">>

\* bulkWrite of updateOne({ url: page.url }, { $set: { page: page._id } })
RECURSIVE WriteRefs(_, _, _)
WriteRefs(U, P, ids) ==
  IF ids = <<>> THEN U
  ELSE LET id == Head(ids)
           next == IF P[id].url \in DOMAIN U
                   THEN [U EXCEPT ![P[id].url].page = id] ELSE U
       IN WriteRefs(next, P, Tail(ids))

\* ensurePageRefs as a function of the two collections
ensurePageRefs(U, P) ==
  LET todo == urlsToUpdate(U, P)
      pagesForUpdates == SelectSeq(PageOrder, LAMBDA id : P[id].url \in todo)
  IN [ urls |-> WriteRefs(U, P, pagesForUpdates),
       written |-> {P[pagesForUpdates[i]].url : i \in 1..Len(pagesForUpdates)} \cap DOMAIN U ]

\* populateEmptyTitles: urls with an empty title get the title the blobs hold
populateEmptyTitles(U, found) ==
  [u \in DOMAIN U |->
     IF U[u].title = "" /\ found[u] # "" THEN [U[u] EXCEPT !.title = found[u]]
     ELSE U[u]]

\* url documents in the order the aggregation returns them
UrlOrder == <<"en/a", "fr/b">>

\* the aggregation: urls with a page field and a title, joined with their page
urlsWithPages(U, P) ==
  SelectSeq(UrlOrder, LAMBDA u :
    U[u].page # Absent /\ U[u].title # "" /\ Lookup(P, U[u].page) # <<>>)

\* toComparisonString(urlDoc) !== toComparisonString(urlDoc.page)
pagesToUpdate(U, P) ==
  SelectSeq(urlsWithPages(U, P), LAMBDA u :
    toComparisonString(UrlView(u, U[u])) # toComparisonString(P[U[u].page]))

\* pages.bulkWrite(pageWriteOps), in order
RECURSIVE WritePages(_, _, _)
WritePages(U, P, todo) ==
  IF todo = <<>> THEN P
  ELSE LET u == Head(todo) IN
       WritePages(U, [P EXCEPT ![U[u].page] = SetProps(@, pickUrlsProps(UrlView(u, U[u])))],
                  Tail(todo))

UrlDocChoices(u) ==
  IF u = "en/a"
  THEN [ page : {Absent, "p1", "p2", "p9"}, title : {"", "t1"},
         redirect : {Absent, "r1"}, is_404 : {"false"}, metadata : {"m1"},
         langHrefs : {[en |-> Absent, fr |-> "fr/a"]} ]
  ELSE [ page : {Absent, "p1", "p2"}, title : {"t2"},
         redirect : {Absent}, is_404 : {Absent}, metadata : {Absent},
         langHrefs : {[en |-> Absent, fr |-> Absent]} ]

PageChoices(id) ==
  IF id = "p1"
  THEN [ url : {"en/a", "fr/b", "en/z"}, title : {"t1", "old"},
         altLangHref : {Absent, "fr/a"}, redirect : {Absent, "r1"},
         is_404 : {"false"}, metadata : {"m1"} ]
  ELSE [ url : {"en/a", "fr/b"}, title : {"t2"}, altLangHref : {Absent},
         redirect : {Absent}, is_404 : {Absent}, metadata : {Absent} ]

InitSync ==
  \E ua \in UrlDocChoices("en/a"), ub \in UrlDocChoices("fr/b"),
     pa \in PageChoices("p1"), pb \in PageChoices("p2"), t \in {"", "t3"} :
    /\ urlDocs = [u \in SUrls |-> IF u = "en/a" THEN ua ELSE ub]
    /\ pages = [id \in PageIds |-> IF id = "p1" THEN pa ELSE pb]
    /\ foundTitles = [u \in SUrls |-> IF u = "en/a" THEN t ELSE ""]
    /\ urlDocsBefore = urlDocs
    /\ urlWrites = {}
    /\ pageWrites = {}
    /\ syncPc = "start"
    /\ IdleRemove
    /\ IdleCheck
    /\ IdleAll
    /\ IdleExt

\* ensurePageRefs()
EnsurePageRefs ==
  /\ syncPc # "idle"
  /\ LET r == ensurePageRefs(urlDocs, pages) IN
       /\ urlDocs' = r.urls
       /\ urlWrites' = r.written
  /\ urlDocsBefore' = urlDocs
  /\ syncPc' = "ensured"
  /\ UNCHANGED <<pages, foundTitles, pageWrites, notSync>>

\* syncDataWithPages(): populateEmptyTitles, ensurePageRefs, then the pages
SyncDataWithPages ==
  /\ syncPc # "idle"
  /\ LET titled == populateEmptyTitles(urlDocs, foundTitles)
         r == ensurePageRefs(titled, pages)
         todo == pagesToUpdate(r.urls, pages)
     IN /\ urlDocs' = r.urls
        /\ urlDocsBefore' = titled
        /\ urlWrites' = r.written
        /\ pages' = WritePages(r.urls, pages, todo)
        /\ pageWrites' = {r.urls[todo[i]].page : i \in 1..Len(todo)}
  /\ syncPc' = IF syncPc \in {"synced", "syncedAgain"} THEN "syncedAgain" ELSE "synced"
  /\ UNCHANGED <<foundTitles, notSync>>

NextSync == EnsurePageRefs \/ SyncDataWithPages

SpecSync == InitSync /\ [][NextSync]_vars

\* ------------------------------------------------------------------------
\* Properties of ensurePageRefs and syncDataWithPages
\* ------------------------------------------------------------------------
RefCorrect(U, u) == U[u].page \in DOMAIN pages /\ pages[U[u].page].url = u

\* C7: after ensurePageRefs every url document that has a page reference and
\* for which a page with the same url exists references a page with its url,
\* and no url document whose reference was already correct has been written.
C7_PageRefsEnsured ==
  syncPc = "ensured" =>
    /\ \A u \in SUrls :
         (urlDocs[u].page # Absent /\ \E id \in PageIds : pages[id].url = u)
           => RefCorrect(urlDocs, u)
    /\ \A u \in urlWrites : ~RefCorrect(urlDocsBefore, u)
    /\ \A u \in SUrls : RefCorrect(urlDocsBefore, u) => urlDocs[u] = urlDocsBefore[u]

\* C7 witness: ensurePageRefs repaired the reference of one url document
\* (it pointed to a page of another url) and left the other, correct one alone.
C7_Witness ==
  /\ syncPc = "ensured"
  /\ \E u \in SUrls, v \in SUrls :
       /\ u # v
       /\ u \in urlWrites
       /\ urlDocsBefore[u].page \in PageIds
       /\ urlDocs[u].page # urlDocsBefore[u].page
       /\ RefCorrect(urlDocsBefore, v)

\* C8: after syncDataWithPages, for every url document with a page reference
\* and a non-empty title the page's title, altLangHref, redirect, is_404 and
\* metadata equal the values derived from the url document, and an
\* immediately repeated call writes no page.
C8_PagesInLine ==
  /\ syncPc \in {"synced", "syncedAgain"} =>
       \A u \in SUrls :
         (urlDocs[u].page \in PageIds /\ urlDocs[u].title # "") =>
           LET page == pages[urlDocs[u].page]
               view == UrlView(u, urlDocs[u])
           IN \A k \in Range(UrlsProps) : page[k] = view[k]
  /\ syncPc = "syncedAgain" => pageWrites = {}

\* ========================================================================
\* DbUpdateService.updateAll
\* ========================================================================
\* createPagesFromPageList started together with the page metrics group
StagesCreateEarly ==
  << {"updatePagesList"},
     {"updateOverallMetrics", "updateUxData"},
     {"updateFeedback"},
     {"updateCalldrivers"},
     {"upsertOverallSearchTerms", "updateAnnotations", "updateGCTasksMappings",
      "updateReports"},
     {"updatePageMetrics", "uploadProjectAttachmentsAndUpdateUrls",
      "uploadReportAttachmentsAndUpdateUrls", "createPagesFromPageList"},
     {"upsertPageSearchTerms"},
     {"updateActivityMap"},
     {"updatePagesLang"},
     {"updateUrls"} >>

\* the steps of updateAll in the groups it awaits, in order; the steps of a
\* group are started together (Promise.allSettled)
Stages ==
  << {"updatePagesList"},
     {"updateOverallMetrics", "updateUxData"},
     {"updateFeedback"},
     {"updateCalldrivers"},
     {"upsertOverallSearchTerms", "updateAnnotations", "updateGCTasksMappings",
      "updateReports"},
     {"updatePageMetrics", "uploadProjectAttachmentsAndUpdateUrls",
      "uploadReportAttachmentsAndUpdateUrls"},
     {"createPagesFromPageList"},
     {"upsertPageSearchTerms"},
     {"updateActivityMap"},
     {"updatePagesLang"},
     {"updateUrls"} >>

Steps == UNION Range(Stages)

\* the steps served by the airtable services
AirtableSteps ==
  { "updatePagesList", "updateUxData", "updateFeedback", "updateCalldrivers",
    "updateAnnotations", "updateGCTasksMappings", "updateReports",
    "uploadProjectAttachmentsAndUpdateUrls", "uploadReportAttachmentsAndUpdateUrls" }

\* the external data source a step pulls from
Source(step) ==
  CASE step \in AirtableSteps -> "airtable"
    [] step \in {"updateOverallMetrics", "upsertOverallSearchTerms",
                 "updatePageMetrics", "upsertPageSearchTerms", "updateActivityMap"}
         -> "analytics"
    [] step = "updateUrls" -> "web"
    [] OTHER -> "database"

\* the variables updateAll does not touch
notAll == <<rvars, cvars, svars, evars, hvars>>

Settled(step) == steps[step] \in {"resolved", "rejected"}

\* the attachment uploads awaited without allSettled as well
reachesOuterCatchUploads(step) ==
  step \in { "updatePagesList", "uploadProjectAttachmentsAndUpdateUrls",
             "uploadReportAttachmentsAndUpdateUrls" }

\* the steps whose rejection is neither caught by a .catch of their own nor
\* held by Promise.allSettled, and so reaches the catch around the whole body
reachesOuterCatch(step) == step = "updatePagesList"

\* the outer catch has been entered
Aborted == \E st \in Steps : reachesOuterCatch(st) /\ steps[st] = "rejected"

\* stage = k: the steps of group k have been started; past the last group:
\* updateAll has resolved
AllDone == Len(Stages) + 1

InitAll ==
  /\ stage = 0
  /\ steps = [st \in Steps |-> "pending"]
  /\ IdleRemove
  /\ IdleCheck
  /\ IdleSync
  /\ IdleExt

\* updateAll starts the next group once the current one has settled
StartStage ==
  /\ stage < Len(Stages)
  /\ stage # 0 => \A st \in Stages[stage] : Settled(st)
  /\ ~Aborted
  /\ stage' = stage + 1
  /\ steps' = [st \in Steps |-> IF st \in Stages[stage + 1] THEN "running" ELSE steps[st]]
  /\ UNCHANGED notAll

\* a running step resolves or rejects
StepSettles ==
  /\ \E st \in Steps, outcome \in {"resolved", "rejected"} :
       /\ steps[st] = "running"
       /\ steps' = [steps EXCEPT ![st] = outcome]
  /\ UNCHANGED <<stage, notAll>>

\* 'Database updates completed.', or the outer catch after updatePagesList
Finish ==
  /\ stage \in 1..Len(Stages)
  /\ \/ stage = Len(Stages) /\ \A st \in Stages[stage] : Settled(st)
     \/ Aborted
  /\ stage' = AllDone
  /\ UNCHANGED <<steps, notAll>>

NextAll == StartStage \/ StepSettles \/ Finish

SpecAll == InitAll /\ [][NextAll]_vars

\* ------------------------------------------------------------------------
\* Properties of updateAll
\* ------------------------------------------------------------------------
Started(step) == steps[step] # "pending"

\* C9: no two steps that pull from the same external data source are running
\* at the same time.
C9_NoSameSourceOverlap ==
  \A s1 \in Steps, s2 \in Steps :
    (s1 # s2 /\ steps[s1] = "running" /\ steps[s2] = "running")
      => Source(s1) # Source(s2)

\* C10: updatePagesList has completed before any other step is started;
\* createPagesFromPageList is started only after updatePageMetrics and both
\* attachment uploads have settled; upsertPageSearchTerms, updateActivityMap
\* and updatePagesLang are started only after createPagesFromPageList has
\* settled; updateUrls is started only after every other step has settled.
C10_PartialOrder ==
  /\ \A st \in Steps \ {"updatePagesList"} :
       Started(st) => steps["updatePagesList"] = "resolved"
  /\ Started("createPagesFromPageList") =>
       /\ Settled("updatePageMetrics")
       /\ Settled("uploadProjectAttachmentsAndUpdateUrls")
       /\ Settled("uploadReportAttachmentsAndUpdateUrls")
  /\ \A st \in {"upsertPageSearchTerms", "updateActivityMap", "updatePagesLang"} :
       Started(st) => Settled("createPagesFromPageList")
  /\ Started("updateUrls") => \A st \in Steps \ {"updateUrls"} : Settled(st)

\* C10 witness: updateUrls is running after createPagesFromPageList and an
\* attachment upload were rejected.
C10_Witness ==
  /\ steps["updateUrls"] = "running"
  /\ steps["createPagesFromPageList"] = "rejected"
  /\ steps["uploadReportAttachmentsAndUpdateUrls"] = "rejected"
  /\ steps["updatePagesLang"] = "resolved"

\* ------------------------------------------------------------------------
\* Batching loops: repopulateGscPageSearchTerms and importGcTss
\* ------------------------------------------------------------------------
\* bulkWriteOps.splice(0, 1000)
GscBatchSize == 1000

\* data.splice(0, 20000)
TssBatchSize == 20000

\* largest number of full batches of a run (one more item may follow them)
MaxBatches == 2

Loops == {"repopulateGscPageSearchTerms", "importGcTss"}

BatchSize(script) ==
  IF script = "repopulateGscPageSearchTerms" THEN GscBatchSize ELSE TssBatchSize

\* The loops never look into an item, so the k-th prepared item is written k
\* and an array holding the consecutive items from..to is written as the pair
\* of its ends (empty when to < from).
ArrayOf(from, to) == [from |-> from, to |-> to]

Length(arr) == IF arr.to >= arr.from THEN arr.to - arr.from + 1 ELSE 0

Min(a, b) == IF a <= b THEN a ELSE b

\* arr.splice(0, size) that cuts off one item more than asked
SpliceOneMore(arr, size) ==
  LET n == Min(size + 1, Length(arr)) IN
    [ removed |-> ArrayOf(arr.from, arr.from + n - 1),
      rest    |-> ArrayOf(arr.from + n, arr.to) ]

\* arr.splice(0, size): removes the first size items (all of them when there
\* are fewer) and returns them
Splice(arr, size) ==
  LET n == Min(size, Length(arr)) IN
    [ removed |-> ArrayOf(arr.from, arr.from + n - 1),
      rest    |-> ArrayOf(arr.from + n, arr.to) ]

\* the variables the batching loops do not touch
notBatch == <<rvars, cvars, svars, avars, uvars, tvars, pvars, hvars>>

InitBatch ==
  /\ loop \in Loops
  /\ loopPc = "loop"
  /\ itemCount \in 0..(MaxBatches * BatchSize(loop) + 1)
  /\ items = ArrayOf(1, itemCount)
  /\ submitted = <<>>
  /\ IdleRemove
  /\ IdleCheck
  /\ IdleSync
  /\ IdleAll
  /\ IdleUpdateUrls
  /\ IdleActivityMap
  /\ IdleCreatePages

\* one turn of while (bulkWriteOps.length) / while (data.length):
\* splice, then bulkWrite / insertMany of the batch
SubmitBatch ==
  /\ loopPc = "loop"
  /\ Length(items) # 0
  /\ LET sp == Splice(items, BatchSize(loop)) IN
       /\ items' = sp.rest
       /\ submitted' = Append(submitted, sp.removed)
  /\ UNCHANGED <<loop, loopPc, itemCount, notBatch>>

\* the loop condition is false
LoopExit ==
  /\ loopPc = "loop"
  /\ Length(items) = 0
  /\ loopPc' = "done"
  /\ UNCHANGED <<loop, items, itemCount, submitted, notBatch>>

NextBatch == SubmitBatch \/ LoopExit

SpecBatch == InitBatch /\ [][NextBatch]_vars

\* ------------------------------------------------------------------------
\* Properties of the batching loops
\* ------------------------------------------------------------------------
\* C11: every batch the loops of repopulateGscPageSearchTerms and
\* importGcTss submit is non-empty and no larger than the batch size; the
\* batches are consecutive pieces of the prepared items in their order, so
\* every item is submitted in exactly one batch; and the loop ends once every
\* item has been submitted, also for no item and for an exact multiple of the
\* batch size.
C11_BatchesPartitionItems ==
  /\ \A i \in 1..Len(submitted) :
       /\ Length(submitted[i]) >= 1
       /\ Length(submitted[i]) <= BatchSize(loop)
       /\ submitted[i].from = (IF i = 1 THEN 1 ELSE submitted[i - 1].to + 1)
  /\ loopPc \in {"loop", "done"} =>
       /\ items.from = (IF submitted = <<>> THEN 1 ELSE submitted[Len(submitted)].to + 1)
       /\ items.to = itemCount
  /\ loopPc = "done" =>
       /\ Length(items) = 0
       /\ Len(submitted) * BatchSize(loop) < itemCount + BatchSize(loop)

\* C11 witness: importGcTss has ended after an exact multiple of the batch
\* size, with as many batches as the multiple.
C11_Witness ==
  /\ loop = "importGcTss"
  /\ loopPc = "done"
  /\ itemCount = MaxBatches * TssBatchSize
  /\ Len(submitted) = MaxBatches
  /\ Length(submitted[MaxBatches]) = TssBatchSize

\* ------------------------------------------------------------------------
\* UrlsService.updateUrls
\* ------------------------------------------------------------------------
\* A url is the sequence of its host, its path and its extension. A field
\* that may be null or missing is <<>> when it is, <<value>> otherwise.
CanadaHtml == <<"www.canada.ca", "/en/a", ".html">>
CanadaHtmlFr == <<"www.canada.ca", "/fr/a", ".html">>
CanadaPdf == <<"www.canada.ca", "/en/b", ".pdf">>
OtherHost == <<"blog.canada.ca", "/en/c", ".html">>

ignoredUrls ==
  { <<"www.canada.ca", "/en/revenue-agency/distribute-your-t4a-slips", ".html">>,
    <<"www.canada.ca", "/fr/agence-revenu/comment-distribuer-vos-feuillets-t4a", ".html">> }

IgnoredEn ==
  <<"www.canada.ca", "/en/revenue-agency/distribute-your-t4a-slips", ".html">>

ModelUrls == {CanadaHtml, CanadaHtmlFr, CanadaPdf, OtherHost, IgnoredEn}

\* /^www\.canada\.ca/
StartsWithCanada(url) == url[1] = "www.canada.ca"

\* url.endsWith('.pdf')
EndsWithPdf(url) == url[Len(url)] = ".pdf"

\* hours in a day
HoursPerDay == 24

\* today().subtract(3, 'days').add(2, 'hours')
threeDaysAgo(today) == today - 3 * HoursPerDay + 2

\* today().subtract(2, 'weeks').add(2, 'hours')
twoWeeksAgo(today) == today - 14 * HoursPerDay + 2

\* { $lt: date }: matches dates only
Lt(field, date) == field # <<>> /\ field[1] < date

\* filter404s that is {} whether or not check404s is set
filter404sNone(opts, doc) == TRUE

\* filter404s: {} with check404s, else { is_404: { $in: [null, false] } }
filter404s(opts, doc) ==
  IF opts.check404s THEN TRUE ELSE doc.is_404 \in {<<>>, <<FALSE>>}

\* urlsQuery: {} with filter or checkAll, else the default query
urlsQuery(opts, doc, today) ==
  IF opts.filter # NoFilter \/ opts.checkAll
  THEN TRUE
  ELSE /\ StartsWithCanada(doc.url)
       /\ \/ doc.last_checked = <<>>
          \/ filter404s(opts, doc) /\ Lt(doc.last_checked, threeDaysAgo(today))
          \/ doc.is_404 = <<TRUE>> /\ Lt(doc.last_checked, twoWeeksAgo(today))

\* urls.find(urlsQuery) filtered of the ignored urls and the pdfs
urlsFromCollection(opts, coll, today) ==
  { doc \in coll : /\ urlsQuery(opts, doc, today)
                   /\ doc.url \notin ignoredUrls
                   /\ ~EndsWithPdf(doc.url) }

\* updateCollectionFromPageUrls: a document for each page url not yet known
newUrlDocs(coll, pUrls) ==
  { [url |-> u, last_checked |-> <<>>, is_404 |-> <<>>] :
      u \in pUrls \ {doc.url : doc \in coll} }

\* the responses a selected url can get; "failed" stands for a callback that
\* logs an error and queues nothing
ResponseKinds == {"is404", "denied", "content", "failed"}

\* the update the callback queues for an 'Access Denied' page when it is
\* handled as an empty body
responseUpdateDeniedAsEmpty(kind, u, date) ==
  CASE kind \in {"is404", "denied"} -> <<Update404(u, date)>>
    [] kind = "content" -> <<UpdateChanged(u, 1, date)>>
    [] OTHER -> <<>>

\* the update the callback of checkAndUpdateUrlData queues for a response
\* (content: a hash not yet recorded), none for 'Access Denied'
responseUpdate(kind, u, date) ==
  CASE kind = "is404" -> <<Update404(u, date)>>
    [] kind = "content" -> <<UpdateChanged(u, 1, date)>>
    [] OTHER -> <<>>

\* updateOne of the queued update on a document of the urls collection
applyQueued(doc, upd) ==
  IF upd = <<>> THEN doc
  ELSE [doc EXCEPT !.last_checked = <<upd[1].set.last_checked>>,
                   !.is_404 = IF "is_404" \in DOMAIN upd[1].set
                              THEN <<upd[1].set.is_404>> ELSE @]

\* filter together with checkAll only
optionsConflictCheckAllOnly(opts) == opts.filter # NoFilter /\ opts.checkAll

\* options?.urls?.filter && (options?.urls?.check404s || options?.urls?.checkAll)
optionsConflict(opts) ==
  opts.filter # NoFilter /\ (opts.check404s \/ opts.checkAll)

\* a run with neither check404s, checkAll nor filter
DefaultOptions == [check404s |-> FALSE, checkAll |-> FALSE, filter |-> NoFilter]

\* last_checked values around the two thresholds
LastCheckedChoices(today) ==
  { <<>>, <<threeDaysAgo(today) - 1>>, <<threeDaysAgo(today)>>,
    <<twoWeeksAgo(today) - 1>>, <<twoWeeksAgo(today)>> }

UrlDocChoicesAt(today) ==
  [ url : ModelUrls, last_checked : LastCheckedChoices(today),
    is_404 : {<<>>, <<FALSE>>, <<TRUE>>} ]

\* collections of at most two documents, the url being unique
UrlCollChoices(today) ==
  {{}} \cup { {pair[1], pair[2]} :
               pair \in { pr \in UrlDocChoicesAt(today) \X UrlDocChoicesAt(today) :
                           pr[1].url # pr[2].url \/ pr[1] = pr[2] } }

\* the variables updateUrls does not touch
notUpdateUrls == <<rvars, cvars, svars, avars, bvars, tvars, pvars, hvars>>

InitUpdateUrls ==
  /\ uPc = "start"
  /\ options \in [ check404s : BOOLEAN, checkAll : BOOLEAN,
                   filter : {NoFilter, [is_404 |-> <<TRUE>>]} ]
  /\ production \in BOOLEAN
  /\ todayT = 20 * HoursPerDay
  /\ urlColl \in UrlCollChoices(todayT)
  /\ pageUrls \in {{}, {CanadaHtml}, {CanadaHtml, OtherHost}}
  /\ selected = {}
  /\ outcomes = <<>>
  /\ urlCollBefore = {}
  /\ uError = NoError
  /\ touched = FALSE
  /\ IdleRemove
  /\ IdleCheck
  /\ IdleSync
  /\ IdleAll
  /\ IdleBatch
  /\ IdleActivityMap
  /\ IdleCreatePages

\* the check of the options at the top of updateUrls
CheckOptions ==
  /\ uPc = "start"
  /\ IF optionsConflict(options)
     THEN /\ uPc' = "threw"
          /\ uError' = "Cannot use filter option with check404s or checkAll options."
     ELSE /\ uPc' = "prepare"
          /\ uError' = uError
  /\ UNCHANGED <<options, production, urlColl, pageUrls, todayT, selected,
                 outcomes, urlCollBefore, touched, notUpdateUrls>>

\* await this.preparePagesCollection()
PreparePagesCollection ==
  /\ uPc = "prepare"
  /\ touched' = TRUE
  /\ uPc' = IF production THEN "fromPageUrls" ELSE "fromBlobStorage"
  /\ UNCHANGED <<options, production, urlColl, pageUrls, todayT, selected,
                 outcomes, urlCollBefore, uError, notUpdateUrls>>

\* not in production: both collections are loaded from blob storage
UpdateCollectionFromBlobStorage ==
  /\ uPc = "fromBlobStorage"
  /\ uPc' = "returned"
  /\ UNCHANGED <<options, production, urlColl, pageUrls, todayT, selected,
                 outcomes, urlCollBefore, uError, touched, notUpdateUrls>>

\* await this.updateCollectionFromPageUrls()
UpdateCollectionFromPageUrls ==
  /\ uPc = "fromPageUrls"
  /\ IF pageUrls = {}
     THEN /\ uPc' = "threw"
          /\ uError' = "Could not populate urls collection."
          /\ urlColl' = urlColl
     ELSE /\ uPc' = "select"
          /\ uError' = uError
          /\ urlColl' = urlColl \cup newUrlDocs(urlColl, pageUrls)
  /\ UNCHANGED <<options, production, pageUrls, todayT, selected, outcomes,
                 urlCollBefore, touched, notUpdateUrls>>

\* the query, and what follows an empty result
SelectUrls ==
  /\ uPc = "select"
  /\ selected' = urlsFromCollection(options, urlColl, todayT)
  /\ urlCollBefore' = urlColl
  /\ IF selected' # {} THEN uPc' = "check" /\ uError' = uError
     ELSE IF urlColl # {} THEN uPc' = "returned" /\ uError' = uError
     ELSE /\ uPc' = "threw"
          /\ uError' = "Urls collection should be populated, but no data was found."
  /\ UNCHANGED <<options, production, urlColl, pageUrls, todayT, outcomes,
                 touched, notUpdateUrls>>

\* checkAndUpdateUrlData(urlsFromCollection): every selected url gets a
\* response and the queued updates are written
CheckAndUpdateUrlData ==
  /\ uPc = "check"
  /\ \E resp \in [{doc.url : doc \in selected} -> ResponseKinds] :
       /\ outcomes' = resp
       /\ urlColl' =
            { IF doc \in selected
              THEN applyQueued(doc, responseUpdate(resp[doc.url], doc.url, todayT + 9))
              ELSE doc : doc \in urlColl }
  /\ uPc' = "returned"
  /\ UNCHANGED <<options, production, pageUrls, todayT, selected, urlCollBefore,
                 uError, touched, notUpdateUrls>>

NextUpdateUrls ==
  \/ CheckOptions \/ PreparePagesCollection \/ UpdateCollectionFromBlobStorage
  \/ UpdateCollectionFromPageUrls \/ SelectUrls \/ CheckAndUpdateUrlData

SpecUpdateUrls == InitUpdateUrls /\ [][NextUpdateUrls]_vars

\* ------------------------------------------------------------------------
\* Properties of updateUrls
\* ------------------------------------------------------------------------
\* days between a run and the next default run
MaxGapDays == 2

C13_FilterConflictThrowsFirst ==
  (uPc # "start" /\ options.filter # NoFilter
     /\ (options.check404s \/ options.checkAll)) =>
    /\ uPc = "threw"
    /\ uError = "Cannot use filter option with check404s or checkAll options."
    /\ ~touched
    /\ selected = {}
    /\ outcomes = <<>>

\* C13 witness: updateUrls has thrown for filter with check404s (and without
\* checkAll) on a populated collection.
C13_Witness ==
  /\ uPc = "threw"
  /\ options.filter # NoFilter
  /\ options.check404s
  /\ ~options.checkAll
  /\ urlColl # {}
  /\ ~touched

\* C16: with a filter option (and neither check404s nor checkAll) only the
\* url documents that match the filter are fetched and updated.
C16_OnlyFilterMatchesChecked ==
  (options.filter # NoFilter /\ ~options.check404s /\ ~options.checkAll) =>
    \A doc \in selected : doc.is_404 = options.filter.is_404

\* C17: in production with default options a url document is selected if and
\* only if its url starts with www.canada.ca, is not an ignored url and is no
\* pdf, and last_checked is null, or is_404 is null or false and last_checked
\* is before the three-day threshold, or is_404 is true and last_checked is
\* before the two-week threshold.
C17_DefaultSelection ==
  (production /\ options = DefaultOptions /\ uPc \in {"check", "returned"}) =>
    \A doc \in urlCollBefore :
      doc \in selected <=>
        /\ doc.url[1] = "www.canada.ca"
        /\ doc.url \notin ignoredUrls
        /\ doc.url[3] # ".pdf"
        /\ \/ doc.last_checked = <<>>
           \/ /\ doc.is_404 \in {<<>>, <<FALSE>>}
              /\ doc.last_checked # <<>>
              /\ doc.last_checked[1] < todayT - 3 * HoursPerDay + 2
           \/ /\ doc.is_404 = <<TRUE>>
              /\ doc.last_checked # <<>>
              /\ doc.last_checked[1] < todayT - 14 * HoursPerDay + 2

\* C17 witness: a default run in production selected a url and left out a
\* url marked 404 whose last check is before the three-day threshold but not
\* before the two-week threshold.
C17_Witness ==
  /\ production
  /\ options = DefaultOptions
  /\ uPc = "check"
  /\ \E d1 \in urlCollBefore, d2 \in urlCollBefore :
       /\ d1 \in selected
       /\ d2 \notin selected
       /\ d2.url = CanadaHtml
       /\ d2.is_404 = <<TRUE>>
       /\ d2.last_checked = <<threeDaysAgo(todayT) - 1>>

\* ------------------------------------------------------------------------
\* Further properties of removeRedundantUrlHashes
\* ------------------------------------------------------------------------
\* C14: after a return that followed a failed removal the dump is exact: a
\* hash the dump lists for a store has not been removed from that store,
\* neither before nor after the dump was written.
C14_DumpExact ==
  (pc = "done" /\ dump # NoDump) =>
    /\ \A h \in Range(dump.urlHashesToRemove) : InUrls(h)
    /\ \A h \in Range(dump.readabilityHashesToDelete) : InReadability(h)
    /\ \A h \in Range(dump.blobHashesToDelete) : InBlobs(h)

\* ------------------------------------------------------------------------
\* Further properties of checkAndUpdateUrlData
\* ------------------------------------------------------------------------
\* C15: every update queued for a url whose response has content sets is_404
\* to false, so that after the write the url is not marked 404, also when
\* the hash of the content was already recorded for the url.
C15_ContentClears404 ==
  \A u \in CUrls :
    (cb[u].kind = "content" /\ queuedOp[u] # NoOp) =>
      /\ "is_404" \in DOMAIN queuedOp[u].set
      /\ queuedOp[u].set.is_404 = FALSE
      /\ Written(u) => urlsDb[u].is_404 = FALSE

\* C18: when checkAndUpdateUrlData starts syncDataWithPages, every update
\* added to the urls queue or the readability queue has been written to the
\* database, exactly once, and none is added later; also when http.getAll
\* has thrown.
C18_QueuesWrittenBeforeSync ==
  phase = "syncing" =>
    /\ urlsQueue = <<>>
    /\ readabilityQueue = <<>>
    /\ \A u \in CUrls :
         queuedOp[u] # NoOp => Occurrences(urlsWritten, queuedOp[u]) = 1

\* ------------------------------------------------------------------------
\* DbUpdateService.updateActivityMap under @Retry(4, 1000)
\* ------------------------------------------------------------------------
\* @Retry(4, 1000): the number of retries
Retries == 4

\* largest number of date ranges of a run
MaxDateRanges == 4

\* the variables updateActivityMap does not touch
notActivityMap == <<rvars, cvars, svars, avars, bvars, uvars, pvars, hvars>>

InitActivityMap ==
  /\ aPc = "call"
  /\ attempts = 0
  /\ dateRanges \in 0..MaxDateRanges
  /\ updated = 0
  /\ attemptError = FALSE
  /\ IdleRemove
  /\ IdleCheck
  /\ IdleSync
  /\ IdleAll
  /\ IdleBatch
  /\ IdleUpdateUrls
  /\ IdleCreatePages

\* DbUpdateService.updateActivityMap is called (first, or again by Retry) and
\* calls ActivityMapService.updateActivityMap
CallUpdateActivityMap ==
  /\ aPc = "call"
  /\ attempts' = attempts + 1
  /\ attemptError' = FALSE
  /\ aPc' = "service"
  /\ UNCHANGED <<dateRanges, updated, notActivityMap>>

\* one turn of for (const dateRange of dateRanges): the queries and the
\* bulkWrite of a date range succeed
UpdateDateRange ==
  /\ aPc = "service"
  /\ updated < dateRanges
  /\ updated' = updated + 1
  /\ UNCHANGED <<aPc, attempts, dateRanges, attemptError, notActivityMap>>

\* a query or the bulkWrite throws inside the service method: catch (e)
\* { this.logger.error(e) } and the method returns
ErrorIsCaught ==
  /\ aPc = "service"
  /\ updated < dateRanges
  /\ attemptError' = TRUE
  /\ aPc' = "returned"
  /\ UNCHANGED <<attempts, dateRanges, updated, notActivityMap>>

\* every date range is done (or the activity map was up to date)
ServiceReturns ==
  /\ aPc = "service"
  /\ updated = dateRanges
  /\ aPc' = "returned"
  /\ UNCHANGED <<attempts, dateRanges, updated, attemptError, notActivityMap>>

\* 'Activity map successfully updated.': the wrapper resolves; a logger call
\* that throws is the one way the wrapper can reject
WrapperSettles ==
  /\ aPc = "returned"
  /\ \E logThrows \in BOOLEAN : aPc' = IF logThrows THEN "threw" ELSE "resolved"
  /\ UNCHANGED <<attempts, dateRanges, updated, attemptError, notActivityMap>>

\* Retry: a rejected call is made again after the delay, Retries times at most
RetryAgain ==
  /\ aPc = "threw"
  /\ aPc' = IF attempts <= Retries THEN "call" ELSE "rejected"
  /\ UNCHANGED <<attempts, dateRanges, updated, attemptError, notActivityMap>>

NextActivityMap ==
  \/ CallUpdateActivityMap \/ UpdateDateRange \/ ErrorIsCaught \/ ServiceReturns
  \/ WrapperSettles \/ RetryAgain

SpecActivityMap == InitActivityMap /\ [][NextActivityMap]_vars

\* C19: when the activity-map update hits an error, the call of
\* DbUpdateService.updateActivityMap does not finish with that attempt: it
\* is attempted again by its Retry(4, 1000) wrapper.
C19_ErrorIsRetried ==
  (attemptError /\ attempts <= Retries) => aPc # "resolved"

\* ------------------------------------------------------------------------
\* Further properties of updateAll
\* ------------------------------------------------------------------------
\* C20: if updatePagesList fails no other step is started; if a later step
\* fails the steps after it are started all the same, so that updateAll ends
\* with every step started; and whatever failed, updateAll goes on to its
\* end and resolves.
C20_FailuresHandled ==
  /\ steps["updatePagesList"] = "rejected" =>
       \A st \in Steps \ {"updatePagesList"} : ~Started(st)
  /\ (stage = AllDone /\ steps["updatePagesList"] = "resolved") =>
       \A st \in Steps : Settled(st)
  /\ (stage \in 1..Len(Stages) /\ \A st \in Stages[stage] : Settled(st)) =>
       ENABLED (StartStage \/ Finish)

\* C20 witness: updateAll has resolved after updateFeedback, an attachment
\* upload and updateActivityMap were rejected, with updateUrls run.
C20_Witness ==
  /\ stage = AllDone
  /\ steps["updatePagesList"] = "resolved"
  /\ steps["updateFeedback"] = "rejected"
  /\ steps["uploadProjectAttachmentsAndUpdateUrls"] = "rejected"
  /\ steps["updateActivityMap"] = "rejected"
  /\ steps["updateUrls"] = "resolved"

\* ------------------------------------------------------------------------
\* DbUpdateService.createPagesFromPageList
\* ------------------------------------------------------------------------
PUrls == {"x", "y"}
Titles == {"T1", "T2"}

\* longest published pages list
MaxListLen == 3

\* page: null in a pageMetrics document
NoPage == 0

\* the variables createPagesFromPageList does not touch
notCreatePages == <<rvars, cvars, svars, avars, bvars, uvars, tvars, hvars>>

\* sequences over S of length n
RECURSIVE SeqsOfLen(_, _)
SeqsOfLen(S, n) ==
  IF n = 0 THEN {<<>>}
  ELSE {Append(sq, x) : sq \in SeqsOfLen(S, n - 1), x \in S}

\* the existing pages have the _ids 1, 2; new Types.ObjectId() gives an _id
\* past those and past the ones given before in the call
ExistingId(url) == IF url = "x" THEN 1 ELSE 2
NewId(i) == 2 + i

\* pagesList.filter(not already in the collection).map(new page), written
\* with the place in the list of the entries that are kept
pagesToCreate(list, coll) ==
  LET urlsAlreadyInCollection ==
        {page.url : page \in {pg \in coll : \E i \in 1..Len(list) : list[i].url = pg.url}}
      keptAt == {i \in 1..Len(list) : list[i].url \notin urlsAlreadyInCollection}
  IN [i \in keptAt |-> [_id |-> NewId(i), url |-> list[i].url, title |-> list[i].title]]

\* insertMany(docs, { ordered: false }) on a collection with a unique url:
\* a document whose url is held by now is refused, the others are inserted
RECURSIVE InsertUnique(_, _, _)
InsertUnique(coll, docs, todo) ==
  IF todo = {} THEN coll
  ELSE LET i == CHOOSE k \in todo : \A j \in todo : k <= j
           taken == \E page \in coll : page.url = docs[i].url
       IN InsertUnique(IF taken THEN coll ELSE coll \cup {docs[i]}, docs, todo \ {i})

\* insertMany(pagesToCreate, { ordered: false })
insertMany(coll, docs, unique) ==
  IF unique THEN InsertUnique(coll, docs, DOMAIN docs)
  ELSE coll \cup {docs[i] : i \in DOMAIN docs}

\* bulkWrite of one updateMany({ url, page: null }, { $set: { page: _id } })
\* per created page, in order
RECURSIVE AddPageRefs(_, _, _)
AddPageRefs(metrics, docs, todo) ==
  IF todo = {} THEN metrics
  ELSE LET i == CHOOSE k \in todo : \A j \in todo : k <= j
       IN AddPageRefs({ IF mt.url = docs[i].url /\ mt.page = NoPage
                        THEN [mt EXCEPT !.page = docs[i]._id] ELSE mt : mt \in metrics },
                      docs, todo \ {i})

InitCreatePages ==
  /\ pPc = "start"
  /\ pagesList \in UNION {SeqsOfLen([url : PUrls, title : Titles], n) : n \in 0..MaxListLen}
  /\ \E have \in SUBSET PUrls :
       pageColl = {[_id |-> ExistingId(u), url |-> u, title |-> "T1"] : u \in have}
  /\ \E loose \in SUBSET PUrls, bound \in SUBSET PUrls :
       pageMetrics = {[url |-> u, page |-> NoPage] : u \in loose}
                     \cup {[url |-> u, page |-> ExistingId(u)] :
                             u \in {v \in bound : \E page \in pageColl : page.url = v}}
  /\ urlIsUnique \in BOOLEAN
  /\ pageCollBefore = pageColl
  /\ pError = NoError
  /\ IdleRemove
  /\ IdleCheck
  /\ IdleSync
  /\ IdleAll
  /\ IdleBatch
  /\ IdleUpdateUrls
  /\ IdleActivityMap

\* pagesListModel.find() and the check of an empty list
FindPagesList ==
  /\ pPc = "start"
  /\ IF Len(pagesList) = 0
     THEN pPc' = "threw" /\ pError' = "Published pages list is empty"
     ELSE pPc' = "insert" /\ pError' = pError
  /\ UNCHANGED <<pagesList, pageColl, pageMetrics, urlIsUnique, pageCollBefore,
                 notCreatePages>>

\* pageModel.find({ url: { $in } }), pagesToCreate and insertMany; a refused
\* document makes insertMany reject once the others are inserted
InsertPages ==
  /\ pPc = "insert"
  /\ LET docs == pagesToCreate(pagesList, pageColl) IN
       /\ pageColl' = insertMany(pageColl, docs, urlIsUnique)
       /\ IF \A i \in DOMAIN docs : docs[i] \in pageColl'
          THEN pPc' = "refs" /\ pError' = pError
          ELSE pPc' = "threw" /\ pError' = "duplicate key"
  /\ UNCHANGED <<pagesList, pageMetrics, urlIsUnique, pageCollBefore, notCreatePages>>

\* pageMetricsModel.bulkWrite(bulkWriteOps) and the return
AddReferences ==
  /\ pPc = "refs"
  /\ LET docs == pagesToCreate(pagesList, pageCollBefore) IN
       pageMetrics' = AddPageRefs(pageMetrics, docs, DOMAIN docs)
  /\ pPc' = "returned"
  /\ UNCHANGED <<pagesList, pageColl, urlIsUnique, pageCollBefore, pError,
                 notCreatePages>>

NextCreatePages == FindPagesList \/ InsertPages \/ AddReferences

SpecCreatePages == InitCreatePages /\ [][NextCreatePages]_vars

\* C21: createPagesFromPageList leaves no two pages with the same url when
\* there were none before, whatever the published pages list holds; with an
\* empty list it throws 'Published pages list is empty' and creates nothing.
C21_NoDuplicatePageUrls ==
  /\ \A p1 \in pageColl, p2 \in pageColl : p1.url = p2.url => p1 = p2
  /\ (pagesList = <<>> /\ pPc # "start") =>
       /\ pPc = "threw"
       /\ pError = "Published pages list is empty"
       /\ pageColl = pageCollBefore

\* ------------------------------------------------------------------------
\* removeRedundantUrlHashes: duplicate readability scores
\* ------------------------------------------------------------------------
\* the group has documents that differ in final_fk_score or total_words
GroupDiffers(R, g) ==
  \E d1 \in GroupDocs(R, g), d2 \in GroupDocs(R, g) : ~isSame(d1, d2)

\* the earliest-dated documents of the group
Earliest(R, g) ==
  {d \in GroupDocs(R, g) : \A other \in GroupDocs(R, g) : d.date <= other.date}

\* C22: when a (url, hash) group of readability documents differs in score
\* or word count, removeRedundantUrlHashes throws with no readability
\* document, url hash entry or blob deleted; otherwise, once the duplicates
\* are done with, each group is down to its earliest-dated document.
C22_ThrowsBeforeAnyDelete ==
  /\ (\E g \in Groups(readabilityStart) : GroupDiffers(readabilityStart, g)) =>
       /\ pc \in {"dedup", "thrown"}
       /\ readability = readabilityStart
       /\ urlHashes = urlHashes0
       /\ \A d \in readabilityStart : d.hash \in blobs
  /\ (~(\E g \in Groups(readabilityStart) : GroupDiffers(readabilityStart, g))
        /\ pc = "find") =>
       \A g \in Groups(readabilityStart) :
         GroupDocs(readability, g) = Earliest(readabilityStart, g)

====
